---- MODULE Spec2Model ----
(***************************************************************************)
(* Daily Financial Summary Agent: the CSV validation / cleaning pipeline   *)
(* (utils.CSVValidator), the breakdown engine (utils.DataFormatter) and    *)
(* the workflow that drives them (analyze_finances.FinanceAgent).          *)
(*                                                                         *)
(* Text is a sequence of one-character strings, so that strip, lower,      *)
(* replace, substring search and number parsing are computed character by  *)
(* character as the code computes them.  A missing cell (pandas NaN/None)  *)
(* is the one-token sequence NaN.  Money is an integer number of cents;    *)
(* a quotient (average, percentage) is an exact fraction <<num, den>>.     *)
(***************************************************************************)
EXTENDS Integers, Sequences, FiniteSets, TLC

VARIABLES
    pc,                 \* position of the run inside run_analysis / load_transactions
    use_sample_data,    \* run_analysis argument
    save_report,        \* run_analysis argument
    fallback_on_error,  \* run_analysis argument
    transactions_exists,\* config.transactions_file.exists()
    sample_exists,      \* config.sample_transactions_file.exists()
    file_path,          \* the file run_analysis chose: "user", "sample" or "none"
    columns,            \* df.columns of the CSV that was read (a sequence of names)
    rows,               \* the raw rows of df, each a function from column to cell
    validation_results, \* what validate_csv_structure returned
    clean_calls,        \* how often clean_and_validate_data was invoked
    df_clean,           \* the cleaned dataset
    breakdown,          \* what calculate_spending_breakdown returned
    ai_requests,        \* how often client.messages.create was called
    ai_error,           \* the exception analyze_with_claude raised, or "none"
    analysis,           \* "none", "ai" or "basic": where the analysis text came from
    analysis_has_marker,\* whether the analysis text contains "Basic Financial Analysis"
    report_path,        \* "none" or "saved"
    reports_written,    \* how many report files were written
    error,              \* the exception that left run_analysis, or "none"
    result              \* the dictionary run_analysis returned, or the empty record

vars == <<pc, use_sample_data, save_report, fallback_on_error, transactions_exists,
          sample_exists, file_path, columns, rows, validation_results, clean_calls,
          df_clean, breakdown, ai_requests, ai_error, analysis, analysis_has_marker,
          report_path, reports_written, error, result>>

-----------------------------------------------------------------------------
(* Text helpers: Python's str.strip, str.lower, str.replace, re.sub, `in`.  *)

NaN == <<"<NaN>">>

isna(v) == v = NaN

Whitespace == {" ", "\t"}

Digits == {"0", "1", "2", "3", "4", "5", "6", "7", "8", "9"}

UpperCase == <<"A","B","C","D","E","F","G","H","I","J","K","L","M",
               "N","O","P","Q","R","S","T","U","V","W","X","Y","Z">>

LowerCase == <<"a","b","c","d","e","f","g","h","i","j","k","l","m",
               "n","o","p","q","r","s","t","u","v","w","x","y","z">>

LowerMap ==
    [c \in {UpperCase[i] : i \in 1..Len(UpperCase)} |->
        LowerCase[CHOOSE i \in 1..Len(UpperCase) : UpperCase[i] = c]]

LowerChar(c) == IF c \in DOMAIN LowerMap THEN LowerMap[c] ELSE c

lower(s) == [i \in 1..Len(s) |-> LowerChar(s[i])]

RECURSIVE lstrip(_)
lstrip(s) == IF s # <<>> /\ Head(s) \in Whitespace THEN lstrip(Tail(s)) ELSE s

RECURSIVE rstrip(_)
rstrip(s) ==
    IF s # <<>> /\ s[Len(s)] \in Whitespace THEN rstrip(SubSeq(s, 1, Len(s) - 1)) ELSE s

strip(s) == rstrip(lstrip(s))

\* str.replace(c, '') for each c of chars in turn; re.sub(r'[chars]', '', s)
RemoveChars(s, chars) == SelectSeq(s, LAMBDA c : c \notin chars)

\* k in s
Contains(s, k) ==
    \E i \in 1..(Len(s) - Len(k) + 1) : SubSeq(s, i, i + Len(k) - 1) = k

DigitVal(c) ==
    CASE c = "0" -> 0 [] c = "1" -> 1 [] c = "2" -> 2 [] c = "3" -> 3 [] c = "4" -> 4
      [] c = "5" -> 5 [] c = "6" -> 6 [] c = "7" -> 7 [] c = "8" -> 8 [] c = "9" -> 9

AllDigits(s) == \A i \in 1..Len(s) : s[i] \in Digits

RECURSIVE NatOf(_)
NatOf(s) == IF s = <<>> THEN 0 ELSE 10 * NatOf(SubSeq(s, 1, Len(s) - 1)) + DigitVal(s[Len(s)])

Abs(n) == IF n < 0 THEN -n ELSE n

Max3(a, b, c) ==
    IF a >= b /\ a >= c THEN a ELSE IF b >= c THEN b ELSE c

RECURSIVE SumSeq(_)
SumSeq(s) == IF s = <<>> THEN 0 ELSE Head(s) + SumSeq(Tail(s))

Range(s) == {s[i] : i \in 1..Len(s)}

-----------------------------------------------------------------------------
(* float(str): optional sign, digits with an optional fraction, or "nan".  *)
(* The value is kept in cents; fraction digits beyond the second are       *)
(* outside the modelled inputs.                                            *)

FloatBody(s) ==
    LET dot == IF \E i \in 1..Len(s) : s[i] = "."
               THEN CHOOSE i \in 1..Len(s) : s[i] = "." /\ \A j \in 1..(i - 1) : s[j] # "."
               ELSE Len(s) + 1
        ip == SubSeq(s, 1, dot - 1)
        fp == SubSeq(s, dot + 1, Len(s))
    IN  IF AllDigits(ip) /\ AllDigits(fp) /\ Len(ip) + Len(fp) > 0 /\ Len(fp) <= 2
        THEN [kind |-> "num",
              cents |-> 100 * NatOf(ip)
                        + (IF Len(fp) = 0 THEN 0
                           ELSE IF Len(fp) = 1 THEN 10 * NatOf(fp) ELSE NatOf(fp))]
        ELSE [kind |-> "error", cents |-> 0]

float(str) ==
    LET s == strip(str)
        signed == s # <<>> /\ Head(s) \in {"-", "+"}
        body == IF signed THEN Tail(s) ELSE s
        r == FloatBody(body)
    IN  IF lower(body) = <<"n", "a", "n">> THEN [kind |-> "nan", cents |-> 0]
        ELSE IF r.kind = "num" /\ signed /\ Head(s) = "-"
             THEN [kind |-> "num", cents |-> -r.cents]
             ELSE r

-----------------------------------------------------------------------------
(* CSVValidator._parse_dates.parse_date                                     *)

NaT == [y |-> 0, m |-> 0, d |-> 0, H |-> 0, M |-> 0, S |-> 0]

Directives == {"%Y", "%m", "%d", "%y", "%H", "%M", "%S"}

\* The format list of parse_date, in the order it is tried.
formats ==
    << <<"%Y", "-", "%m", "-", "%d">>,
       <<"%m", "/", "%d", "/", "%Y">>,
       <<"%m", "-", "%d", "-", "%Y">>,
       <<"%d", "/", "%m", "/", "%Y">>,
       <<"%Y", "/", "%m", "/", "%d">>,
       <<"%m", "/", "%d", "/", "%y">>,
       <<"%Y", "-", "%m", "-", "%d", " ", "%H", ":", "%M", ":", "%S">> >>

RECURSIVE LeadingDigits(_)
LeadingDigits(s) ==
    IF s # <<>> /\ Head(s) \in Digits THEN 1 + LeadingDigits(Tail(s)) ELSE 0

NoFields == [f \in Directives |-> (IF f \in {"%m", "%d"} THEN 1 ELSE 0)] @@ [ok |-> TRUE]

\* The fields a format reads off a string; ok is FALSE when the string does
\* not match the format exactly.
RECURSIVE MatchFormat(_, _, _)
MatchFormat(s, fmt, acc) ==
    IF fmt = <<>> THEN [acc EXCEPT !.ok = (s = <<>>)]
    ELSE LET f == Head(fmt) IN
         IF f \in Directives
         THEN LET maxw == IF f = "%Y" THEN 4 ELSE 2
                  minw == IF f = "%Y" THEN 4 ELSE IF f = "%y" THEN 2 ELSE 1
                  have == LeadingDigits(s)
                  n == IF have > maxw THEN maxw ELSE have
              IN  IF n < minw THEN [acc EXCEPT !.ok = FALSE]
                  ELSE MatchFormat(SubSeq(s, n + 1, Len(s)), Tail(fmt),
                                   [acc EXCEPT ![f] = NatOf(SubSeq(s, 1, n))])
         ELSE IF s # <<>> /\ Head(s) = f
              THEN MatchFormat(Tail(s), Tail(fmt), acc)
              ELSE [acc EXCEPT !.ok = FALSE]

IsLeap(y) == (y % 4 = 0 /\ y % 100 # 0) \/ y % 400 = 0

DaysIn(y, m) ==
    IF m = 2 THEN (IF IsLeap(y) THEN 29 ELSE 28)
    ELSE IF m \in {4, 6, 9, 11} THEN 30 ELSE 31

\* pd.to_datetime(date_str, format=fmt): a timestamp, or ok = FALSE for ValueError.
strptime(s, fmt) ==
    LET a == MatchFormat(s, fmt, NoFields)
        year == IF "%y" \in Range(fmt)
                THEN (IF a["%y"] < 69 THEN 2000 + a["%y"] ELSE 1900 + a["%y"])
                ELSE a["%Y"]
        good == /\ a.ok
                /\ a["%m"] \in 1..12
                /\ a["%d"] \in 1..DaysIn(year, a["%m"])
                /\ a["%H"] < 24 /\ a["%M"] < 60 /\ a["%S"] < 62
    IN  [ok |-> good,
         ts |-> IF good
                THEN [y |-> year, m |-> a["%m"], d |-> a["%d"],
                      H |-> a["%H"], M |-> a["%M"], S |-> a["%S"]]
                ELSE NaT]

\* pd.to_datetime(date_str) without a format: of the shapes the general
\* parser accepts beyond the seven formats, the compact ISO date YYYYMMDD.
to_datetime_auto(s) == strptime(s, <<"%Y", "%m", "%d">>)

parse_date(date_val) ==
    IF isna(date_val) THEN NaT
    ELSE LET date_str == strip(date_val)
             hits == {i \in 1..Len(formats) : strptime(date_str, formats[i]).ok}
         IN  IF date_str = <<>> THEN NaT   \* to_datetime('') is NaT, no exception
             ELSE IF hits # {}
                  THEN strptime(date_str,
                                formats[CHOOSE i \in hits : \A j \in hits : i <= j]).ts
                  ELSE to_datetime_auto(date_str).ts

-----------------------------------------------------------------------------
(* CSVValidator._parse_amounts.clean_amount                                 *)

\* A parsed amount: null (None / NaN in the column) or a number of cents.
NoAmount == [null |-> TRUE, cents |-> 0]

Amount(c) == [null |-> FALSE, cents |-> c]

clean_amount(amount_val) ==
    IF isna(amount_val) THEN NoAmount
    ELSE LET s1 == strip(amount_val)
             s2 == RemoveChars(s1, {"$", ",", "€", "£", "¥"})
             s3 == IF s2 # <<>> /\ Head(s2) = "(" /\ s2[Len(s2)] = ")"
                   THEN <<"-">> \o SubSeq(s2, 2, Len(s2) - 1)
                   ELSE s2
             f == float(s3)
         IN  IF f.kind = "num" THEN Amount(f.cents) ELSE NoAmount

-----------------------------------------------------------------------------
(* CSVValidator._standardize_types.standardize_type                         *)

DebitWords ==
    { <<"d","e","b","i","t">>, <<"w","i","t","h","d","r","a","w","a","l">>,
      <<"e","x","p","e","n","s","e">>, <<"o","u","t">>, <<"-">> }

CreditWords ==
    { <<"c","r","e","d","i","t">>, <<"d","e","p","o","s","i","t">>,
      <<"i","n","c","o","m","e">>, <<"i","n">>, <<"+">> }

\* standardize_type comparing the text as written, without strip().lower()
standardize_type_verbatim(type_val) ==
    IF isna(type_val) THEN "Unknown"
    ELSE IF type_val \in DebitWords THEN "Debit"
         ELSE IF type_val \in CreditWords THEN "Credit"
         ELSE "Unknown"

standardize_type(type_val) ==
    IF isna(type_val) THEN "Unknown"
    ELSE LET type_str == lower(strip(type_val))
         IN  IF type_str \in DebitWords THEN "Debit"
             ELSE IF type_str \in CreditWords THEN "Credit"
             ELSE "Unknown"

-----------------------------------------------------------------------------
(* CSVValidator: structure and data-quality validation                      *)

REQUIRED_COLUMNS == <<"Date", "Description", "Amount", "Type">>

OPTIONAL_COLUMNS == <<"Category", "Account", "Balance">>

VALID_TYPES ==
    { <<"D","e","b","i","t">>, <<"C","r","e","d","i","t">>,
      <<"d","e","b","i","t">>, <<"c","r","e","d","i","t">> }

\* One entry of the errors / warnings lists: the message and what it names.
Message(kind, n, names) == [kind |-> kind, n |-> n, names |-> names]

\* df.drop_duplicates() / Series.unique(): the first of each group of equal
\* elements is kept, in order
RECURSIVE drop_duplicates(_)
drop_duplicates(rws) ==
    IF rws = <<>> THEN <<>>
    ELSE LET init == drop_duplicates(SubSeq(rws, 1, Len(rws) - 1))
             last == rws[Len(rws)]
         IN  IF last \in Range(init) THEN init ELSE Append(init, last)

\* df.duplicated().sum(): the rows equal to an earlier row
duplicated(rws) ==
    Cardinality({i \in 1..Len(rws) : \E j \in 1..(i - 1) : rws[j] = rws[i]})

DateInvalid(r) == isna(r["Date"]) \/ strip(r["Date"]) = <<>>

AmountInvalid(r) ==
    \/ isna(r["Amount"])
    \/ float(RemoveChars(RemoveChars(r["Amount"], {"$"}), {","})).kind = "error"

TypeInvalid(r) == r["Type"] \notin VALID_TYPES

\* _validate_data_quality with unparseable amounts reported as errors
_validate_data_quality_strict(cols, rws) ==
    LET duplicates == duplicated(rws)
        date_errors == Len(SelectSeq(rws, DateInvalid))
        amount_errors == Len(SelectSeq(rws, AmountInvalid))
        type_errors == IF "Type" \in Range(cols) THEN Len(SelectSeq(rws, TypeInvalid)) ELSE 0
        invalid_types == SelectSeq(rws, TypeInvalid)
        unique_invalid == drop_duplicates([i \in 1..Len(invalid_types) |-> invalid_types[i]["Type"]])
    IN  [data_quality |->
            [total_rows |-> Len(rws),
             valid_rows |-> Len(rws) - Max3(date_errors, amount_errors, type_errors),
             date_errors |-> date_errors,
             amount_errors |-> amount_errors,
             type_errors |-> type_errors,
             duplicate_count |-> duplicates],
         errors |-> IF amount_errors > 0
                    THEN <<Message("Found invalid amounts", amount_errors, <<>>)>>
                    ELSE <<>>,
         warnings |->
            (IF duplicates > 0
             THEN <<Message("Found duplicate transactions", duplicates, <<>>)>> ELSE <<>>)
            \o (IF date_errors > 0
                THEN <<Message("Found invalid/missing dates", date_errors, <<>>)>> ELSE <<>>)
            \o (IF amount_errors > 0
                THEN <<Message("Found invalid amounts", amount_errors, <<>>)>> ELSE <<>>)
            \o (IF type_errors > 0
                THEN <<Message("Found invalid transaction types", type_errors,
                               unique_invalid)>>
                ELSE <<>>)]

\* _validate_data_quality with valid_rows as the rows left after subtracting
\* every error count
_validate_data_quality_sum(cols, rws) ==
    LET duplicates == duplicated(rws)
        date_errors == Len(SelectSeq(rws, DateInvalid))
        amount_errors == Len(SelectSeq(rws, AmountInvalid))
        type_errors == IF "Type" \in Range(cols) THEN Len(SelectSeq(rws, TypeInvalid)) ELSE 0
        invalid_types == SelectSeq(rws, TypeInvalid)
        unique_invalid == drop_duplicates([i \in 1..Len(invalid_types) |-> invalid_types[i]["Type"]])
    IN  [data_quality |->
            [total_rows |-> Len(rws),
             valid_rows |-> Len(rws) - (date_errors + amount_errors + type_errors),
             date_errors |-> date_errors,
             amount_errors |-> amount_errors,
             type_errors |-> type_errors,
             duplicate_count |-> duplicates],
         errors |-> <<>>,
         warnings |->
            (IF duplicates > 0
             THEN <<Message("Found duplicate transactions", duplicates, <<>>)>> ELSE <<>>)
            \o (IF date_errors > 0
                THEN <<Message("Found invalid/missing dates", date_errors, <<>>)>> ELSE <<>>)
            \o (IF amount_errors > 0
                THEN <<Message("Found invalid amounts", amount_errors, <<>>)>> ELSE <<>>)
            \o (IF type_errors > 0
                THEN <<Message("Found invalid transaction types", type_errors,
                               unique_invalid)>>
                ELSE <<>>)]

_validate_data_quality(cols, rws) ==
    LET duplicates == duplicated(rws)
        date_errors == Len(SelectSeq(rws, DateInvalid))
        amount_errors == Len(SelectSeq(rws, AmountInvalid))
        type_errors == IF "Type" \in Range(cols) THEN Len(SelectSeq(rws, TypeInvalid)) ELSE 0
        invalid_types == SelectSeq(rws, TypeInvalid)
        unique_invalid == drop_duplicates([i \in 1..Len(invalid_types) |-> invalid_types[i]["Type"]])
    IN  [data_quality |->
            [total_rows |-> Len(rws),
             valid_rows |-> Len(rws) - Max3(date_errors, amount_errors, type_errors),
             date_errors |-> date_errors,
             amount_errors |-> amount_errors,
             type_errors |-> type_errors,
             duplicate_count |-> duplicates],
         errors |-> <<>>,
         warnings |->
            (IF duplicates > 0
             THEN <<Message("Found duplicate transactions", duplicates, <<>>)>> ELSE <<>>)
            \o (IF date_errors > 0
                THEN <<Message("Found invalid/missing dates", date_errors, <<>>)>> ELSE <<>>)
            \o (IF amount_errors > 0
                THEN <<Message("Found invalid amounts", amount_errors, <<>>)>> ELSE <<>>)
            \o (IF type_errors > 0
                THEN <<Message("Found invalid transaction types", type_errors,
                               unique_invalid)>>
                ELSE <<>>)]

\* validate_csv_structure with 'Type' left out of the required columns it checks
validate_csv_structure_type_unchecked(cols, rws) ==
    LET missing_columns ==
            SelectSeq(SubSeq(REQUIRED_COLUMNS, 1, 3), LAMBDA c : c \notin Range(cols))
        validation_results0 ==
            [is_valid |-> missing_columns = <<>>,
             errors |-> IF missing_columns # <<>>
                        THEN <<Message("Missing required columns", 0, missing_columns)>>
                        ELSE <<>>,
             warnings |-> <<>>,
             column_info |-> <<>>,
             data_quality |-> <<>>]
    IN  IF validation_results0.is_valid
        THEN _validate_data_quality(cols, rws) @@ validation_results0
        ELSE validation_results0

validate_csv_structure(cols, rws) ==
    LET missing_columns == SelectSeq(REQUIRED_COLUMNS, LAMBDA c : c \notin Range(cols))
        extra_columns ==
            SelectSeq(cols, LAMBDA c : c \notin Range(REQUIRED_COLUMNS \o OPTIONAL_COLUMNS))
        validation_results0 ==
            [is_valid |-> missing_columns = <<>>,
             errors |-> IF missing_columns # <<>>
                        THEN <<Message("Missing required columns", 0, missing_columns)>>
                        ELSE <<>>,
             warnings |-> IF extra_columns # <<>>
                          THEN <<Message("Unknown columns found", 0, extra_columns)>>
                          ELSE <<>>,
             column_info |-> <<>>,
             data_quality |-> <<>>]
    IN  IF validation_results0.is_valid
        THEN \* dict.update: the keys of the quality result replace the ones set above
             _validate_data_quality(cols, rws) @@ validation_results0
        ELSE validation_results0

-----------------------------------------------------------------------------
(* CSVValidator.clean_and_validate_data                                     *)

clean_row(r) ==
    [r EXCEPT !["Date"] = parse_date(r["Date"]),
              !["Amount"] = clean_amount(r["Amount"]),
              !["Type"] = standardize_type(r["Type"])]

\* df.dropna(subset=['Date', 'Amount'])
dropna(rws) == SelectSeq(rws, LAMBDA r : r["Date"] # NaT /\ ~r["Amount"].null)

\* clean_and_validate_data removing duplicates before the cells are parsed
clean_and_validate_data_dedupe_first(rws) ==
    LET unique == drop_duplicates(rws)
    IN  dropna([i \in 1..Len(unique) |-> clean_row(unique[i])])

\* clean_and_validate_data dropping the rows with missing cells before parsing
clean_and_validate_data_drop_first(rws) ==
    LET present == SelectSeq(rws, LAMBDA r : ~isna(r["Date"]) /\ ~isna(r["Amount"]))
    IN  drop_duplicates([i \in 1..Len(present) |-> clean_row(present[i])])

clean_and_validate_data(rws) ==
    drop_duplicates(dropna([i \in 1..Len(rws) |-> clean_row(rws[i])]))

-----------------------------------------------------------------------------
(* DataFormatter._categorize_transactions / calculate_spending_breakdown    *)

\* The keys of category_keywords, in the order the dictionary lists them.
CategoryOrder ==
    <<"Groceries", "Dining", "Transportation", "Bills", "Shopping",
      "Entertainment", "Healthcare", "Other">>

category_keywords(category) ==
    CASE category = "Groceries" ->
           {<<"g","r","o","c","e","r","y">>,
            <<"w","h","o","l","e"," ","f","o","o","d","s">>,
            <<"t","r","a","d","e","r"," ","j","o","e">>,
            <<"c","o","s","t","c","o">>,
            <<"s","a","f","e","w","a","y">>,
            <<"k","r","o","g","e","r">>,
            <<"w","a","l","m","a","r","t">>,
            <<"f","o","o","d">>}
      [] category = "Dining" ->
           {<<"r","e","s","t","a","u","r","a","n","t">>,
            <<"c","a","f","e">>,
            <<"c","o","f","f","e","e">>,
            <<"s","t","a","r","b","u","c","k","s">>,
            <<"m","c","d","o","n","a","l","d">>,
            <<"b","u","r","g","e","r">>,
            <<"p","i","z","z","a">>,
            <<"c","h","i","p","o","t","l","e">>,
            <<"u","b","e","r"," ","e","a","t","s">>,
            <<"d","o","o","r","d","a","s","h">>}
      [] category = "Transportation" ->
           {<<"g","a","s">>,
            <<"f","u","e","l">>,
            <<"u","b","e","r">>,
            <<"l","y","f","t">>,
            <<"t","a","x","i">>,
            <<"p","a","r","k","i","n","g">>,
            <<"m","e","t","r","o">>,
            <<"b","u","s">>,
            <<"t","r","a","i","n">>}
      [] category = "Bills" ->
           {<<"e","l","e","c","t","r","i","c">>,
            <<"g","a","s"," ","b","i","l","l">>,
            <<"w","a","t","e","r">>,
            <<"i","n","t","e","r","n","e","t">>,
            <<"p","h","o","n","e">>,
            <<"c","a","b","l","e">>,
            <<"i","n","s","u","r","a","n","c","e">>,
            <<"r","e","n","t">>,
            <<"m","o","r","t","g","a","g","e">>}
      [] category = "Shopping" ->
           {<<"a","m","a","z","o","n">>,
            <<"t","a","r","g","e","t">>,
            <<"m","a","l","l">>,
            <<"s","t","o","r","e">>,
            <<"s","h","o","p","p","i","n","g">>,
            <<"c","l","o","t","h","i","n","g">>,
            <<"r","e","t","a","i","l">>}
      [] category = "Entertainment" ->
           {<<"n","e","t","f","l","i","x">>,
            <<"s","p","o","t","i","f","y">>,
            <<"m","o","v","i","e">>,
            <<"t","h","e","a","t","e","r">>,
            <<"g","a","m","e">>,
            <<"e","n","t","e","r","t","a","i","n","m","e","n","t">>,
            <<"s","u","b","s","c","r","i","p","t","i","o","n">>}
      [] category = "Healthcare" ->
           {<<"p","h","a","r","m","a","c","y">>,
            <<"d","o","c","t","o","r">>,
            <<"m","e","d","i","c","a","l">>,
            <<"h","e","a","l","t","h">>,
            <<"c","v","s">>,
            <<"w","a","l","g","r","e","e","n">>}
      [] category = "Other" ->
           {}

\* mask of one row: Description.str.lower().str.contains('|'.join(keywords), na=False)
mask(description, category) ==
    /\ ~isna(description)
    /\ LET lowered == lower(description)
       IN  \E k \in category_keywords(category) : Contains(lowered, k)

\* The Category column of one row after the loop over category_keywords:
\* every category whose mask holds assigns itself, in dictionary order.
RECURSIVE assign_category(_, _, _)
assign_category(description, cats, current) ==
    IF cats = <<>> THEN current
    ELSE assign_category(description, Tail(cats),
                         IF Head(cats) # "Other" /\ mask(description, Head(cats))
                         THEN Head(cats)
                         ELSE current)

\* df_copy: the expense rows with their Category column
with_category(rws) ==
    [i \in 1..Len(rws) |->
        [row |-> rws[i],
         Category |-> assign_category(rws[i]["Description"], CategoryOrder, "Other")]]

AmountsOf(rws) == [i \in 1..Len(rws) |-> rws[i]["Amount"].cents]

CategoryAmounts(df_copy) == [i \in 1..Len(df_copy) |-> df_copy[i].row["Amount"].cents]

\* sorted(...) replaced by an ascending sort that is then reversed: equal keys
\* come out in the opposite of their insertion order
RECURSIVE sorted_by_total_reversed(_)
sorted_by_total_reversed(entries) ==
    IF entries = <<>> THEN <<>>
    ELSE LET init == sorted_by_total_reversed(SubSeq(entries, 1, Len(entries) - 1))
             e == entries[Len(entries)]
             before == SelectSeq(init, LAMBDA x : x.total > e.total)
             after == SelectSeq(init, LAMBDA x : x.total <= e.total)
         IN  before \o <<e>> \o after

\* sorted(items, key=total, reverse=True): a stable sort, equal keys keep their order
RECURSIVE sorted_by_total(_)
sorted_by_total(entries) ==
    IF entries = <<>> THEN <<>>
    ELSE LET init == sorted_by_total(SubSeq(entries, 1, Len(entries) - 1))
             e == entries[Len(entries)]
             before == SelectSeq(init, LAMBDA x : x.total >= e.total)
             after == SelectSeq(init, LAMBDA x : x.total < e.total)
         IN  before \o <<e>> \o after

category_entry(df_copy, category) ==
    LET category_data == SelectSeq(df_copy, LAMBDA r : r.Category = category)
        total == Abs(SumSeq(CategoryAmounts(category_data)))
        count == Len(category_data)
    IN  [name |-> category,
         total |-> total,
         count |-> count,
         average |-> IF count > 0 THEN <<total, count>> ELSE <<0, 1>>,
         percentage |-> <<0, 1>>]

\* _categorize_transactions with the rows left in 'Other' not reported
_categorize_transactions_matched_only(rws) ==
    IF rws = <<>> THEN <<>>
    ELSE LET df_copy == with_category(rws)
             all == [i \in 1..(Len(CategoryOrder) - 1) |->
                        category_entry(df_copy, CategoryOrder[i])]
             categories == SelectSeq(all, LAMBDA e : e.count > 0)
             total_spending == SumSeq([i \in 1..Len(categories) |-> categories[i].total])
             with_pct ==
                 [i \in 1..Len(categories) |->
                    IF total_spending > 0
                    THEN [categories[i] EXCEPT
                             !.percentage = <<categories[i].total * 100, total_spending>>]
                    ELSE categories[i]]
         IN  sorted_by_total(with_pct)

\* _categorize_transactions with the percentage left as a share of 1
_categorize_transactions_share(rws) ==
    IF rws = <<>> THEN <<>>
    ELSE LET df_copy == with_category(rws)
             all == [i \in 1..Len(CategoryOrder) |->
                        category_entry(df_copy, CategoryOrder[i])]
             categories == SelectSeq(all, LAMBDA e : e.count > 0)
             total_spending == SumSeq([i \in 1..Len(categories) |-> categories[i].total])
             with_pct ==
                 [i \in 1..Len(categories) |->
                    [categories[i] EXCEPT
                        !.percentage = <<categories[i].total, total_spending>>]]
         IN  sorted_by_total(with_pct)

_categorize_transactions(rws) ==
    IF rws = <<>> THEN <<>>
    ELSE LET df_copy == with_category(rws)
             all == [i \in 1..Len(CategoryOrder) |->
                        category_entry(df_copy, CategoryOrder[i])]
             categories == SelectSeq(all, LAMBDA e : e.count > 0)
             total_spending == SumSeq([i \in 1..Len(categories) |-> categories[i].total])
             with_pct ==
                 [i \in 1..Len(categories) |->
                    IF total_spending > 0
                    THEN [categories[i] EXCEPT
                             !.percentage = <<categories[i].total * 100, total_spending>>]
                    ELSE categories[i]]
         IN  sorted_by_total(with_pct)

\* calculate_spending_breakdown taking amount >= 0 as income
calculate_spending_breakdown_zero_income(rws) ==
    LET expenses == SelectSeq(rws, LAMBDA r : r["Amount"].cents < 0)
        income == SelectSeq(rws, LAMBDA r : r["Amount"].cents >= 0)
        total_spent == IF expenses # <<>> THEN Abs(SumSeq(AmountsOf(expenses))) ELSE 0
        total_income == IF income # <<>> THEN SumSeq(AmountsOf(income)) ELSE 0
    IN  [summary |-> [total_income |-> total_income,
                      total_spent |-> total_spent,
                      net_flow |-> total_income - total_spent,
                      transaction_count |-> Len(rws)],
         categories |-> _categorize_transactions(expenses),
         by_type |-> [income_count |-> Len(income), expense_count |-> Len(expenses)]]

\* calculate_spending_breakdown without the abs() around the expense sum
calculate_spending_breakdown_signed(rws) ==
    LET expenses == SelectSeq(rws, LAMBDA r : r["Amount"].cents < 0)
        income == SelectSeq(rws, LAMBDA r : r["Amount"].cents > 0)
        total_spent == IF expenses # <<>> THEN SumSeq(AmountsOf(expenses)) ELSE 0
        total_income == IF income # <<>> THEN SumSeq(AmountsOf(income)) ELSE 0
    IN  [summary |-> [total_income |-> total_income,
                      total_spent |-> total_spent,
                      net_flow |-> total_income - total_spent,
                      transaction_count |-> Len(rws)],
         categories |-> _categorize_transactions(expenses),
         by_type |-> [income_count |-> Len(income), expense_count |-> Len(expenses)]]

calculate_spending_breakdown(rws) ==
    LET expenses == SelectSeq(rws, LAMBDA r : r["Amount"].cents < 0)
        income == SelectSeq(rws, LAMBDA r : r["Amount"].cents > 0)
        total_spent == IF expenses # <<>> THEN Abs(SumSeq(AmountsOf(expenses))) ELSE 0
        total_income == IF income # <<>> THEN SumSeq(AmountsOf(income)) ELSE 0
    IN  [summary |-> [total_income |-> total_income,
                      total_spent |-> total_spent,
                      net_flow |-> total_income - total_spent,
                      transaction_count |-> Len(rws)],
         categories |-> _categorize_transactions(expenses),
         by_type |-> [income_count |-> Len(income), expense_count |-> Len(expenses)]]

-----------------------------------------------------------------------------
(* The cells the specifications draw their CSV files from.                  *)

d_iso == <<"2","0","2","5","-","1","0","-","2","4">>

d_us == <<"1","0","/","2","4","/","2","0","2","5">>

d_eu == <<"2","4","/","1","0","/","2","0","2","5">>

d_compact == <<"2","0","2","5","1","0","2","4">>

d_feb30 == <<"2","0","2","5","-","0","2","-","3","0">>

d_blank == <<" "," ">>

d_next == <<"2","0","2","5","-","1","0","-","2","5">>

a_minus10 == <<"-","1","0">>

a_minus30 == <<"-","3","0">>

a_minus10_00 == <<"-","1","0",".","0","0">>

a_zero == <<"0">>

a_plus20 == <<"2","0">>

a_dollar50 == <<"$","5","0",".","0","0">>

a_50 == <<"5","0">>

a_paren == <<"(","1",",","2","3","4",".","5","6",")">>

a_euro50 == <<"€","5","0">>

a_abc == <<"a","b","c">>

t_Debit == <<"D","e","b","i","t">>

t_debit == <<"d","e","b","i","t">>

t_Credit == <<"C","r","e","d","i","t">>

t_credit == <<"c","r","e","d","i","t">>

t_WITHDRAWAL == <<"W","I","T","H","D","R","A","W","A","L">>

t_Deposit_sp == <<" ","D","e","p","o","s","i","t"," ">>

t_foo == <<"f","o","o">>

t_Expense == <<"E","x","p","e","n","s","e">>

t_OUT_sp == <<"\t","O","U","T"," ">>

t_minus == <<"-">>

t_Income == <<"I","n","c","o","m","e">>

t_In == <<"I","n">>

t_plus_sp == <<" ","+">>

t_blank == <<" "," ">>

t_debits == <<"d","e","b","i","t","s">>

t_in_out == <<"i","n"," ","o","u","t">>

t_de_bit == <<"d","e"," ","b","i","t">>

s_whole_foods == <<"W","h","o","l","e"," ","F","o","o","d","s">>

s_starbucks == <<"S","t","a","r","b","u","c","k","s"," ","C","o","f","f","e","e">>

s_coffee_amazon == <<"C","o","f","f","e","e"," ","a","t"," ","A","m","a","z","o","n">>

s_uber_eats == <<"U","b","e","r"," ","E","a","t","s">>

s_gas_bill == <<"G","a","s"," ","B","i","l","l">>

s_salary == <<"S","a","l","a","r","y">>

s_atm == <<"A","T","M"," ","f","e","e">>

s_cvs == <<"C","V","S"," ","P","h","a","r","m","a","c","y">>

x_note == <<"m","e","m","o">>

\* A CSV row over the header cols: the cell of every column the header has.
MkRow(cols, t) ==
    [c \in Range(cols) |->
        CASE c = "Date" -> t[1]
          [] c = "Description" -> t[2]
          [] c = "Amount" -> t[3]
          [] c = "Type" -> t[4]
          [] OTHER -> t[5]]

\* Every sequence of at most n elements of S
SeqsUpTo(S, n) == UNION {[1..k -> S] : k \in 0..n}

Datasets(cols, pool, n) == SeqsUpTo({MkRow(cols, t) : t \in pool}, n)

H_required == <<"Date", "Description", "Amount", "Type">>

H_optional == <<"Date", "Description", "Amount", "Type", "Category">>

H_unknown == <<"Date", "Notes", "Description", "Amount", "Type">>

H_no_type == <<"Date", "Description", "Amount">>

H_no_amount_unknown == <<"Date", "Description", "Type", "Notes", "Balance">>

Headers == {H_required, H_optional, H_unknown, H_no_type, H_no_amount_unknown}

-----------------------------------------------------------------------------
(* FinanceAgent.run_analysis and load_transactions, step by step            *)

NoValidation ==
    [is_valid |-> FALSE, errors |-> <<>>, warnings |-> <<>>,
     column_info |-> <<>>, data_quality |-> <<>>]

NoBreakdown ==
    [summary |-> [total_income |-> 0, total_spent |-> 0, net_flow |-> 0,
                  transaction_count |-> 0],
     categories |-> <<>>,
     by_type |-> [income_count |-> 0, expense_count |-> 0]]

NoResult ==
    [returned |-> FALSE, analysis |-> "none", report_path |-> "none",
     used_fallback |-> FALSE]

\* The texts analyze_with_claude looks for in the message of an API error.
ErrorMarkers == {"credit balance is too low", "authentication_error", "rate_limit"}

ApiErrors == {"CreditBalanceError", "AuthenticationError", "RateLimitError"}

\* The state on entry, for a CSV file (cols, rws) and the arguments of the run.
Entry(start, file, cols, rws) ==
    /\ pc = start
    /\ file_path = file
    /\ columns = cols
    /\ rows = rws
    /\ validation_results = NoValidation
    /\ clean_calls = 0
    /\ df_clean = <<>>
    /\ breakdown = NoBreakdown
    /\ ai_requests = 0
    /\ ai_error = "none"
    /\ analysis = "none"
    /\ analysis_has_marker = FALSE
    /\ report_path = "none"
    /\ reports_written = 0
    /\ error = "none"
    /\ result = NoResult

\* run_analysis: which file to use
ChooseFile ==
    /\ pc = "start"
    /\ file_path' = IF use_sample_data \/ ~transactions_exists THEN "sample" ELSE "user"
    /\ pc' = "load"
    /\ UNCHANGED <<use_sample_data, save_report, fallback_on_error, transactions_exists,
                   sample_exists, columns, rows, validation_results, clean_calls,
                   df_clean, breakdown, ai_requests, ai_error, analysis,
                   analysis_has_marker, report_path, reports_written, error, result>>

FileExists == IF file_path = "sample" THEN sample_exists ELSE transactions_exists

\* load_transactions: the existence check and pd.read_csv
ReadCSV ==
    /\ pc = "load"
    /\ IF FileExists
       THEN pc' = "validate" /\ error' = error
       ELSE pc' = "raised" /\ error' = "FileNotFoundError"
    /\ UNCHANGED <<use_sample_data, save_report, fallback_on_error, transactions_exists,
                   sample_exists, file_path, columns, rows, validation_results,
                   clean_calls, df_clean, breakdown, ai_requests, ai_error, analysis,
                   analysis_has_marker, report_path, reports_written, result>>

\* load_transactions: validation_results = self.validator.validate_csv_structure(df)
ValidateStructure ==
    /\ pc = "validate"
    /\ validation_results' = validate_csv_structure(columns, rows)
    /\ pc' = "check"
    /\ UNCHANGED <<use_sample_data, save_report, fallback_on_error, transactions_exists,
                   sample_exists, file_path, columns, rows, clean_calls, df_clean,
                   breakdown, ai_requests, ai_error, analysis, analysis_has_marker,
                   report_path, reports_written, error, result>>

\* load_transactions: if not validation_results['is_valid']: raise DataValidationError
RaiseValidationError ==
    /\ pc = "check"
    /\ ~validation_results.is_valid
    /\ pc' = "raised"
    /\ error' = "DataValidationError"
    /\ UNCHANGED <<use_sample_data, save_report, fallback_on_error, transactions_exists,
                   sample_exists, file_path, columns, rows, validation_results,
                   clean_calls, df_clean, breakdown, ai_requests, ai_error, analysis,
                   analysis_has_marker, report_path, reports_written, result>>

\* load_transactions: df_clean = self.validator.clean_and_validate_data(df)
CleanData ==
    /\ pc = "check"
    /\ validation_results.is_valid
    /\ df_clean' = clean_and_validate_data(rows)
    /\ clean_calls' = clean_calls + 1
    /\ pc' = "breakdown"
    /\ UNCHANGED <<use_sample_data, save_report, fallback_on_error, transactions_exists,
                   sample_exists, file_path, columns, rows, validation_results,
                   breakdown, ai_requests, ai_error, analysis, analysis_has_marker,
                   report_path, reports_written, error, result>>

\* df_copy['Description'].str: a Description column in which the file has no
\* text at all was read as a numeric column, and its .str accessor raises
\* AttributeError; the accessor is reached only when there is an expense row.
str_accessor_raises(rws, cleaned) ==
    /\ \A i \in 1..Len(rws) : isna(rws[i]["Description"])
    /\ \E i \in 1..Len(cleaned) : cleaned[i]["Amount"].cents < 0

\* run_analysis: breakdown = DataFormatter.calculate_spending_breakdown(df)
CalculateBreakdown ==
    /\ pc = "breakdown"
    /\ IF str_accessor_raises(rows, df_clean)
       THEN pc' = "raised" /\ error' = "AttributeError" /\ breakdown' = breakdown
       ELSE /\ breakdown' = calculate_spending_breakdown(df_clean)
            /\ pc' = "analyze"
            /\ error' = error
    /\ UNCHANGED <<use_sample_data, save_report, fallback_on_error, transactions_exists,
                   sample_exists, file_path, columns, rows, validation_results,
                   clean_calls, df_clean, ai_requests, ai_error, analysis,
                   analysis_has_marker, report_path, reports_written, result>>

\* The exception analyze_with_claude raises for an API error whose message
\* contains the markers found: the if / elif chain of its except clause.
api_exception(found) ==
    IF "credit balance is too low" \in found THEN "CreditBalanceError"
    ELSE IF "authentication_error" \in found THEN "AuthenticationError"
    ELSE IF "rate_limit" \in found THEN "RateLimitError"
    ELSE "APIError"

\* analyze_with_claude: one request to the service; its text, or its failure
analyze_with_claude ==
    /\ pc = "analyze"
    /\ ai_requests' = ai_requests + 1
    /\ \/ \E marker \in BOOLEAN :
            /\ analysis' = "ai"
            /\ analysis_has_marker' = marker
            /\ pc' = "report"
            /\ UNCHANGED <<ai_error, error>>
       \/ \E found \in SUBSET ErrorMarkers :
            /\ ai_error' = api_exception(found)
            /\ error' = api_exception(found)
            /\ pc' = "except"
            /\ UNCHANGED <<analysis, analysis_has_marker>>
    /\ UNCHANGED <<use_sample_data, save_report, fallback_on_error, transactions_exists,
                   sample_exists, file_path, columns, rows, validation_results,
                   clean_calls, df_clean, breakdown, report_path, reports_written,
                   result>>

\* generate_basic_analysis replaced by a second attempt at the request
generate_basic_analysis_retry ==
    /\ pc = "except"
    /\ error \in ApiErrors
    /\ fallback_on_error
    /\ ai_requests < 2
    /\ error' = "none"
    /\ pc' = "analyze"
    /\ UNCHANGED <<use_sample_data, save_report, fallback_on_error, transactions_exists,
                   sample_exists, file_path, columns, rows, validation_results,
                   clean_calls, df_clean, breakdown, ai_requests, ai_error, analysis,
                   analysis_has_marker, report_path, reports_written, result>>

\* run_analysis: except (CreditBalanceError, AuthenticationError, RateLimitError)
\* with fallback_on_error: analysis = self.generate_basic_analysis(breakdown)
generate_basic_analysis ==
    /\ pc = "except"
    /\ error \in ApiErrors
    /\ fallback_on_error
    /\ analysis' = "basic"
    /\ analysis_has_marker' = TRUE
    /\ error' = "none"
    /\ pc' = "report"
    /\ UNCHANGED <<use_sample_data, save_report, fallback_on_error, transactions_exists,
                   sample_exists, file_path, columns, rows, validation_results,
                   clean_calls, df_clean, breakdown, ai_requests, ai_error,
                   report_path, reports_written, result>>

\* the except clause re-raising whether or not fallback_on_error is set
PropagateApiError_always ==
    /\ pc = "except"
    /\ pc' = "raised"
    /\ UNCHANGED <<use_sample_data, save_report, fallback_on_error, transactions_exists,
                   sample_exists, file_path, columns, rows, validation_results,
                   clean_calls, df_clean, breakdown, ai_requests, ai_error, analysis,
                   analysis_has_marker, report_path, reports_written, error, result>>

\* the except clause saving a report of the breakdown before it re-raises
PropagateApiError_with_report ==
    /\ pc = "except"
    /\ error \notin ApiErrors \/ ~fallback_on_error
    /\ IF save_report
       THEN report_path' = "saved" /\ reports_written' = reports_written + 1
       ELSE report_path' = "none" /\ reports_written' = reports_written
    /\ pc' = "raised"
    /\ UNCHANGED <<use_sample_data, save_report, fallback_on_error, transactions_exists,
                   sample_exists, file_path, columns, rows, validation_results,
                   clean_calls, df_clean, breakdown, ai_requests, ai_error, analysis,
                   analysis_has_marker, error, result>>

\* run_analysis: raise api_error without fallback; any other exception of the
\* request is not caught by that clause and leaves run_analysis as well
PropagateApiError ==
    /\ pc = "except"
    /\ error \notin ApiErrors \/ ~fallback_on_error
    /\ pc' = "raised"
    /\ UNCHANGED <<use_sample_data, save_report, fallback_on_error, transactions_exists,
                   sample_exists, file_path, columns, rows, validation_results,
                   clean_calls, df_clean, breakdown, ai_requests, ai_error, analysis,
                   analysis_has_marker, report_path, reports_written, error, result>>

\* run_analysis: generate and save the report if requested
GenerateReport ==
    /\ pc = "report"
    /\ IF save_report
       THEN report_path' = "saved" /\ reports_written' = reports_written + 1
       ELSE report_path' = "none" /\ reports_written' = reports_written
    /\ pc' = "return"
    /\ UNCHANGED <<use_sample_data, save_report, fallback_on_error, transactions_exists,
                   sample_exists, file_path, columns, rows, validation_results,
                   clean_calls, df_clean, breakdown, ai_requests, ai_error, analysis,
                   analysis_has_marker, error, result>>

\* run_analysis: the returned dictionary
Return ==
    /\ pc = "return"
    /\ result' = [returned |-> TRUE,
                  analysis |-> analysis,
                  report_path |-> report_path,
                  used_fallback |-> (analysis # "none" /\ analysis_has_marker)]
    /\ pc' = "done"
    /\ UNCHANGED <<use_sample_data, save_report, fallback_on_error, transactions_exists,
                   sample_exists, file_path, columns, rows, validation_results,
                   clean_calls, df_clean, breakdown, ai_requests, ai_error, analysis,
                   analysis_has_marker, report_path, reports_written, error>>

-----------------------------------------------------------------------------
(* Spec: whole runs of run_analysis over small CSV files.                   *)

MaxRunRows == 2

RunPool ==
    { <<d_iso, s_whole_foods, a_minus10, t_Debit, x_note>>,
      <<d_us, s_salary, a_dollar50, t_credit, x_note>>,
      <<NaN, s_atm, a_abc, t_foo, NaN>> }

Init ==
    /\ use_sample_data \in BOOLEAN
    /\ save_report \in BOOLEAN
    /\ fallback_on_error \in BOOLEAN
    /\ transactions_exists \in BOOLEAN
    /\ sample_exists \in BOOLEAN
    /\ \E cols \in Headers :
         \E rws \in Datasets(cols, RunPool, MaxRunRows) : Entry("start", "none", cols, rws)

Next ==
    \/ ChooseFile
    \/ ReadCSV
    \/ ValidateStructure
    \/ RaiseValidationError
    \/ CleanData
    \/ CalculateBreakdown
    \/ analyze_with_claude
    \/ generate_basic_analysis
    \/ PropagateApiError
    \/ GenerateReport
    \/ Return

Spec == Init /\ [][Next]_vars

-----------------------------------------------------------------------------
(* The specifications of the single operations: the run is placed after a   *)
(* successful read of the sample file, and only the steps up to the         *)
(* operation are taken.                                                     *)

AfterRead(cols, rws) ==
    /\ use_sample_data = TRUE
    /\ save_report = TRUE
    /\ fallback_on_error = TRUE
    /\ transactions_exists = FALSE
    /\ sample_exists = TRUE
    /\ Entry("validate", "sample", cols, rws)

\* SpecValidate: validate_csv_structure over headers and defective rows
MaxValidateRows == 2

ValidatePool ==
    { <<d_iso, s_whole_foods, a_minus10, t_Debit, x_note>>,
      <<d_us, s_salary, a_dollar50, t_credit, x_note>>,
      <<NaN, s_atm, a_abc, t_foo, NaN>>,
      <<d_blank, s_atm, a_paren, t_WITHDRAWAL, x_note>>,
      <<d_iso, s_starbucks, a_euro50, t_Deposit_sp, x_note>>,
      <<d_iso, s_salary, NaN, NaN, x_note>>,
      <<a_abc, s_whole_foods, a_50, t_Credit, x_note>>,
      <<d_iso, s_whole_foods, a_minus10_00, t_debit, x_note>> }

InitValidate ==
    \E cols \in Headers :
        \E rws \in Datasets(cols, ValidatePool, MaxValidateRows) : AfterRead(cols, rws)

NextValidate == ValidateStructure

SpecValidate == InitValidate /\ [][NextValidate]_vars

\* SpecClean: clean_and_validate_data over structurally valid files
MaxCleanRows == 3

CleanPool ==
    ValidatePool \cup
    { <<d_feb30, s_salary, a_50, t_Credit, x_note>>,
      <<d_compact, s_whole_foods, a_minus10, t_Debit, x_note>>,
      <<d_iso, s_salary, a_50, t_Deposit_sp, x_note>>,
      <<d_iso, s_atm, a_minus30, NaN, x_note>> }

InitClean ==
    \E cols \in {H_required, H_optional} :
        \E rws \in Datasets(cols, CleanPool, MaxCleanRows) : AfterRead(cols, rws)

NextClean == ValidateStructure \/ CleanData

SpecClean == InitClean /\ [][NextClean]_vars

\* SpecBreakdown: calculate_spending_breakdown over the cleaned rows of files
\* whose descriptions and amounts vary
MaxBreakdownRows == 3

BreakdownPool ==
    { <<d_iso, s_whole_foods, a_minus10, t_Debit, NaN>>,
      <<d_iso, s_starbucks, a_minus30, t_Debit, NaN>>,
      <<d_next, s_starbucks, a_minus30, t_Debit, NaN>>,
      <<d_iso, s_coffee_amazon, a_minus10, t_Debit, NaN>>,
      <<d_iso, s_coffee_amazon, a_minus30, t_Debit, NaN>>,
      <<d_iso, s_uber_eats, a_minus10, t_Debit, NaN>>,
      <<d_iso, s_atm, a_minus10, t_Debit, NaN>>,
      <<d_iso, NaN, a_minus30, t_Debit, NaN>>,
      <<d_iso, s_salary, a_plus20, t_Credit, NaN>>,
      <<d_iso, s_salary, a_zero, t_Credit, NaN>>,
      <<d_iso, s_cvs, a_dollar50, t_Credit, NaN>> }

InitBreakdown ==
    \E rws \in Datasets(H_required, BreakdownPool, MaxBreakdownRows) :
        AfterRead(H_required, rws)

NextBreakdown == ValidateStructure \/ CleanData \/ CalculateBreakdown

SpecBreakdown == InitBreakdown /\ [][NextBreakdown]_vars

\* SpecTypes: the quality check and standardize_type over the Type column of
\* files whose other cells are sound
MaxTypeRows == 2

TypeCells ==
    { t_Debit, t_debit, t_Credit, t_credit, t_WITHDRAWAL, t_Deposit_sp, t_Expense,
      t_OUT_sp, t_minus, t_Income, t_In, t_plus_sp, t_blank, t_debits, t_in_out,
      t_de_bit, t_foo, NaN }

TypePool == {<<d_iso, s_whole_foods, a_minus10, t, NaN>> : t \in TypeCells}

InitTypes ==
    \E rws \in Datasets(H_required, TypePool, MaxTypeRows) : AfterRead(H_required, rws)

NextTypes == ValidateStructure \/ CleanData

SpecTypes == InitTypes /\ [][NextTypes]_vars

-----------------------------------------------------------------------------
(* Properties of whole runs (Spec)                                          *)

RequiredMissing == {c \in {"Date", "Description", "Amount", "Type"} : c \notin Range(columns)}

\* C1: a dataset lacking a required column makes validate_csv_structure return
\* is_valid = false with one error naming exactly the missing columns, the run
\* then raises DataValidationError, and clean_and_validate_data is never invoked.
C1_MissingColumnBlocksCleaning ==
    RequiredMissing # {} =>
        /\ clean_calls = 0
        /\ df_clean = <<>>
        /\ pc \in {"start", "load", "validate", "check", "raised"}
        /\ pc = "check" =>
              /\ ~validation_results.is_valid
              /\ Len(validation_results.errors) = 1
              /\ validation_results.errors[1].kind = "Missing required columns"
              /\ Range(validation_results.errors[1].names) = RequiredMissing
              /\ ENABLED RaiseValidationError
              /\ ~ENABLED CleanData
        /\ pc = "raised" => error \in {"FileNotFoundError", "DataValidationError"}
        /\ (pc = "raised" /\ FileExists) => error = "DataValidationError"

C1_Witness ==
    /\ pc = "raised"
    /\ error = "DataValidationError"
    /\ RequiredMissing = {"Amount"}
    /\ Len(rows) = MaxRunRows
    /\ clean_calls = 0

C7_AtMostOneRequest ==
    /\ ai_requests <= 1
    /\ ai_error # "none" => ai_requests = 1
    /\ (ai_error # "none" /\ pc \notin {"except", "raised"}) => analysis = "basic"

C7_Witness ==
    /\ pc = "done"
    /\ ai_error = "CreditBalanceError"
    /\ ai_requests = 1
    /\ result.analysis = "basic"

-----------------------------------------------------------------------------
(* Properties of validate_csv_structure (SpecValidate)                      *)

KnownColumns == {"Date", "Description", "Amount", "Type", "Category", "Account", "Balance"}

UnknownColumns == {c \in Range(columns) : c \notin KnownColumns}

Warned(kind) ==
    \E i \in 1..Len(validation_results.warnings) :
        validation_results.warnings[i].kind = kind

\* C2: is_valid is false if and only if a required column is missing; a file
\* with all four required columns is valid with an empty errors list whatever
\* its rows hold, and row defects show only as warnings and error counts.
C2_InvalidOnlyWhenColumnMissing ==
    pc = "check" =>
        /\ validation_results.is_valid <=> RequiredMissing = {}
        /\ validation_results.is_valid =>
              /\ validation_results.errors = <<>>
              /\ validation_results.data_quality.total_rows = Len(rows)
              /\ validation_results.data_quality.date_errors > 0
                    <=> Warned("Found invalid/missing dates")
              /\ validation_results.data_quality.amount_errors > 0
                    <=> Warned("Found invalid amounts")
              /\ validation_results.data_quality.type_errors > 0
                    <=> Warned("Found invalid transaction types")
              /\ validation_results.data_quality.duplicate_count > 0
                    <=> Warned("Found duplicate transactions")

C2_Witness ==
    /\ pc = "check"
    /\ validation_results.is_valid
    /\ UnknownColumns # {}
    /\ validation_results.data_quality.date_errors > 0
    /\ validation_results.data_quality.amount_errors > 0
    /\ validation_results.data_quality.type_errors > 0
    /\ validation_results.data_quality.duplicate_count > 0
    /\ Len(validation_results.warnings) = 4

\* C5: whenever the file has a column outside the required and optional sets,
\* the returned result holds a warning listing the unknown columns, for a
\* structurally invalid and for a structurally valid file alike.
C5_UnknownColumnsWarned ==
    (pc = "check" /\ UnknownColumns # {}) =>
        \E i \in 1..Len(validation_results.warnings) :
            /\ validation_results.warnings[i].kind = "Unknown columns found"
            /\ Range(validation_results.warnings[i].names) = UnknownColumns

-----------------------------------------------------------------------------
(* Properties of clean_and_validate_data (SpecClean)                        *)

\* C3: after cleaning every surviving row has a non-null date and a non-null
\* amount, no two surviving rows are equal on all columns, and every type is
\* one of Debit, Credit, Unknown.
C3_CleanedRowsWellFormed ==
    pc = "breakdown" =>
        /\ \A i \in 1..Len(df_clean) :
              /\ df_clean[i]["Date"] # NaT
              /\ df_clean[i]["Date"].m \in 1..12
              /\ ~df_clean[i]["Amount"].null
              /\ df_clean[i]["Type"] \in {"Debit", "Credit", "Unknown"}
        /\ \A i, j \in 1..Len(df_clean) : i # j => df_clean[i] # df_clean[j]

\* Two different raw rows that clean to one row, next to a row that is dropped.
C3_Witness ==
    /\ pc = "breakdown"
    /\ Len(rows) = 3
    /\ Len(df_clean) = 1
    /\ \E i, j, k \in 1..3 :
          /\ rows[i] # rows[j]
          /\ clean_row(rows[i]) = clean_row(rows[j])
          /\ clean_row(rows[k])["Date"] = NaT

\* The parsed rows of the file rws: date, amount and type replaced by their
\* parsed / standardized values
Parsed(rws) == [i \in 1..Len(rws) |-> clean_row(rws[i])]

\* The parsed rows that stay: date and amount non-null, no equal earlier row
Kept(parsed) ==
    {i \in 1..Len(parsed) :
        /\ parsed[i]["Date"] # NaT
        /\ ~parsed[i]["Amount"].null
        /\ \A j \in 1..(i - 1) : parsed[j] # parsed[i]}

RECURSIVE KeptRows(_, _, _)
KeptRows(parsed, kept, n) ==
    IF n = 0 THEN <<>>
    ELSE KeptRows(parsed, kept, n - 1) \o (IF n \in kept THEN <<parsed[n]>> ELSE <<>>)

\* C14: the cleaned dataset is the parsed rows without those whose parsed date
\* or amount is null and without those equal to an earlier remaining row, in
\* the original order, whatever warnings the quality check gave; rows that
\* differ only in formatting leave one row, and a null type stays as Unknown.
C14_ParseDropDedupe ==
    pc = "breakdown" =>
        LET parsed == Parsed(rows)
            kept == Kept(parsed)
        IN  /\ df_clean = KeptRows(parsed, kept, Len(parsed))
            /\ \A i, j \in 1..Len(rows) :
                  (i # j /\ parsed[i] = parsed[j]) =>
                      Cardinality({k \in 1..Len(df_clean) : df_clean[k] = parsed[i]}) <= 1
            /\ \A i \in 1..Len(rows) :
                  (isna(rows[i]["Type"]) /\ parsed[i]["Date"] # NaT
                                        /\ ~parsed[i]["Amount"].null) =>
                      \E k \in 1..Len(df_clean) :
                          df_clean[k] = parsed[i] /\ df_clean[k]["Type"] = "Unknown"

\* "10/24/2025, $50.00, credit" and "2025-10-24, 50, Deposit" leave one row, a
\* row with a null type stays, and the quality check had warned
C14_Witness ==
    /\ pc = "breakdown"
    /\ validation_results.warnings # <<>>
    /\ Len(rows) = 3
    /\ rows[1]["Amount"] = a_dollar50 /\ rows[1]["Type"] = t_credit
    /\ rows[2]["Amount"] = a_50 /\ rows[2]["Type"] = t_Deposit_sp
    /\ rows[3]["Type"] = NaN
    /\ Len(df_clean) = 2
    /\ df_clean[1]["Amount"] = Amount(5000) /\ df_clean[1]["Type"] = "Credit"
    /\ df_clean[2]["Type"] = "Unknown"

-----------------------------------------------------------------------------
(* Properties of calculate_spending_breakdown (SpecBreakdown)               *)

IsExpense(r) == r["Amount"].cents < 0

IsIncome(r) == r["Amount"].cents > 0

IsZero(r) == r["Amount"].cents = 0

\* The sum of the negative amounts of rws, and of the positive ones
RECURSIVE NegativeSum(_)
NegativeSum(rws) ==
    IF rws = <<>> THEN 0
    ELSE (IF IsExpense(Head(rws)) THEN Head(rws)["Amount"].cents ELSE 0)
         + NegativeSum(Tail(rws))

RECURSIVE PositiveSum(_)
PositiveSum(rws) ==
    IF rws = <<>> THEN 0
    ELSE (IF IsIncome(Head(rws)) THEN Head(rws)["Amount"].cents ELSE 0)
         + PositiveSum(Tail(rws))

\* The entry of a category in the emitted mapping (count 0 when it is absent)
EmittedCount(category) ==
    LET hits == SelectSeq(breakdown.categories, LAMBDA e : e.name = category)
    IN  IF hits = <<>> THEN 0 ELSE hits[1].count

MatchingCategories(description) ==
    {i \in 1..(Len(CategoryOrder) - 1) : mask(description, CategoryOrder[i])}

FirstMatch(description) ==
    IF MatchingCategories(description) = {} THEN "Other"
    ELSE CategoryOrder[CHOOSE i \in MatchingCategories(description) :
                          \A j \in MatchingCategories(description) : i <= j]

\* C4: every expense row is put in the first category, in the order Groceries,
\* Dining, Transportation, Bills, Shopping, Entertainment, Healthcare, whose
\* keywords its lower-cased description contains, also when it contains
\* keywords of several categories; a row matching no keyword is put in Other.
C4_FirstMatchWins ==
    pc = "analyze" =>
        \A c \in Range(CategoryOrder) :
            EmittedCount(c) =
                Cardinality({i \in 1..Len(df_clean) :
                                /\ IsExpense(df_clean[i])
                                /\ FirstMatch(df_clean[i]["Description"]) = c})

\* C8: rows with amount 0 add to neither total and to neither count but are
\* counted in transaction_count, so that
\* transaction_count = income_count + expense_count + number of zero rows.
C8_ZeroRowsOnlyCounted ==
    pc = "analyze" =>
        LET nonzero == SelectSeq(df_clean, LAMBDA r : ~IsZero(r))
            zeros == Len(df_clean) - Len(nonzero)
            without == calculate_spending_breakdown(nonzero)
        IN  /\ breakdown.summary.transaction_count = Len(df_clean)
            /\ breakdown.by_type.income_count =
                  Cardinality({i \in 1..Len(df_clean) : IsIncome(df_clean[i])})
            /\ breakdown.by_type.expense_count =
                  Cardinality({i \in 1..Len(df_clean) : IsExpense(df_clean[i])})
            /\ breakdown.summary.transaction_count =
                  breakdown.by_type.income_count + breakdown.by_type.expense_count + zeros
            /\ breakdown.summary.total_income = without.summary.total_income
            /\ breakdown.summary.total_spent = without.summary.total_spent
            /\ breakdown.by_type = without.by_type
            /\ breakdown.categories = without.categories

C8_Witness ==
    /\ pc = "analyze"
    /\ Cardinality({i \in 1..Len(df_clean) : IsZero(df_clean[i])}) = 1
    /\ breakdown.by_type.income_count = 1
    /\ breakdown.by_type.expense_count = 1
    /\ breakdown.summary.transaction_count = 3

\* C9: total_spent is the absolute value of the sum of the negative amounts,
\* total_income the sum of the positive amounts (0 when there are none),
\* net_flow = total_income - total_spent, and neither total is negative.
C9_Totals ==
    pc = "analyze" =>
        /\ breakdown.summary.total_spent = Abs(NegativeSum(df_clean))
        /\ breakdown.summary.total_income = PositiveSum(df_clean)
        /\ breakdown.summary.net_flow =
              breakdown.summary.total_income - breakdown.summary.total_spent
        /\ breakdown.summary.total_spent >= 0
        /\ breakdown.summary.total_income >= 0

C9_Witness ==
    /\ pc = "analyze"
    /\ breakdown.summary.total_spent = 4000
    /\ breakdown.summary.total_income = 2000
    /\ breakdown.summary.net_flow = -2000

RECURSIVE GCD(_, _)
GCD(a, b) == IF b = 0 THEN a ELSE GCD(b, a % b)

\* A fraction in lowest terms
Reduced(f) ==
    LET g == GCD(Abs(f[1]), Abs(f[2]))
    IN  IF g = 0 THEN f ELSE <<f[1] \div g, f[2] \div g>>

\* The fraction f equals n / d
FracEq(f, n, d) == f[2] # 0 /\ d # 0 /\ Reduced(f) = Reduced(<<n, d>>)

FracIs(f, n) == FracEq(f, n, 1)

RECURSIVE FracSum(_)
FracSum(fs) ==
    IF fs = <<>> THEN <<0, 1>>
    ELSE LET rest == FracSum(Tail(fs))
             h == Reduced(Head(fs))
         IN  Reduced(<<h[1] * rest[2] + rest[1] * h[2], h[2] * rest[2]>>)

GroceriesAndDining ==
    /\ Len(df_clean) = 2
    /\ \E i, j \in 1..2 :
          /\ lower(df_clean[i]["Description"]) = lower(s_whole_foods)
          /\ df_clean[i]["Amount"] = Amount(-1000)
          /\ lower(df_clean[j]["Description"]) = lower(s_starbucks)
          /\ df_clean[j]["Amount"] = Amount(-3000)

\* C10: with at least one expense row, each emitted category's percentage is
\* 100 * total / (sum of the emitted totals), the percentages sum to 100, and
\* average = total / count; expenses of -10 (Groceries) and -30 (Dining) give
\* total_spent = 40, Groceries 25% and Dining 75%.
C10_Percentages ==
    pc = "analyze" =>
        LET cats == breakdown.categories
            emitted == SumSeq([i \in 1..Len(cats) |-> cats[i].total])
        IN  /\ breakdown.by_type.expense_count > 0 =>
                  /\ cats # <<>>
                  /\ emitted > 0
                  /\ \A i \in 1..Len(cats) :
                        /\ FracEq(cats[i].percentage, 100 * cats[i].total, emitted)
                        /\ cats[i].count > 0
                        /\ FracEq(cats[i].average, cats[i].total, cats[i].count)
                  /\ FracIs(FracSum([i \in 1..Len(cats) |-> cats[i].percentage]), 100)
            /\ GroceriesAndDining =>
                  /\ breakdown.summary.total_spent = 4000
                  /\ Len(cats) = 2
                  /\ cats[1].name = "Dining" /\ FracIs(cats[1].percentage, 75)
                  /\ cats[2].name = "Groceries" /\ FracIs(cats[2].percentage, 25)

C10_Witness ==
    /\ pc = "analyze"
    /\ GroceriesAndDining
    /\ FracIs(breakdown.categories[1].percentage, 75)
    /\ FracIs(breakdown.categories[2].percentage, 25)

CategoryIndex(category) == CHOOSE i \in 1..Len(CategoryOrder) : CategoryOrder[i] = category

\* C11: the categories mapping is emitted in non-increasing order of total, and
\* two categories with equal total appear in the enumeration order Groceries,
\* Dining, Transportation, Bills, Shopping, Entertainment, Healthcare, Other.
C11_SortedStable ==
    pc = "analyze" =>
        LET cats == breakdown.categories
        IN  \A i, j \in 1..Len(cats) :
                i < j =>
                    /\ cats[i].name \in Range(CategoryOrder)
                    /\ cats[j].name \in Range(CategoryOrder)
                    /\ cats[i].name # cats[j].name
                    /\ cats[i].total >= cats[j].total
                    /\ cats[i].total = cats[j].total =>
                          CategoryIndex(cats[i].name) < CategoryIndex(cats[j].name)

\* Three categories, the last two tied on their total
C11_Witness ==
    /\ pc = "analyze"
    /\ Len(breakdown.categories) = 3
    /\ breakdown.categories[1].total > breakdown.categories[2].total
    /\ breakdown.categories[2].total = breakdown.categories[3].total
    /\ breakdown.categories[2].name = "Groceries"
    /\ breakdown.categories[3].name = "Other"

-----------------------------------------------------------------------------
(* Properties of standardize_type (SpecTypes)                               *)

DebitSynonyms ==
    { <<"d","e","b","i","t">>, <<"w","i","t","h","d","r","a","w","a","l">>,
      <<"e","x","p","e","n","s","e">>, <<"o","u","t">>, <<"-">> }

CreditSynonyms ==
    { <<"c","r","e","d","i","t">>, <<"d","e","p","o","s","i","t">>,
      <<"i","n","c","o","m","e">>, <<"i","n">>, <<"+">> }

\* The raw rows that clean to the cleaned row c
RawOf(c) == {i \in 1..Len(rows) : clean_row(rows[i]) = c}

\* What the type cell t is to become: by the trimmed, lower-cased text
TypeOf(t) ==
    IF t = NaN THEN "Unknown"
    ELSE IF lower(strip(t)) \in DebitSynonyms THEN "Debit"
    ELSE IF lower(strip(t)) \in CreditSynonyms THEN "Credit"
    ELSE "Unknown"

AcceptedTypes ==
    { <<"D","e","b","i","t">>, <<"C","r","e","d","i","t">>,
      <<"d","e","b","i","t">>, <<"c","r","e","d","i","t">> }

\* C12: standardize_type is total: null becomes Unknown; a value that, trimmed
\* and lower-cased, is one of debit, withdrawal, expense, out, "-" becomes
\* Debit, one of credit, deposit, income, in, "+" becomes Credit, anything else
\* Unknown.  So every type the quality check accepts becomes Debit or Credit,
\* and the quality check counts as type errors exactly the other rows, some of
\* which still become Debit or Credit.
C12_TypeStandardizer ==
    pc = "breakdown" =>
        /\ \A k \in 1..Len(df_clean) :
              /\ df_clean[k]["Type"] \in {"Debit", "Credit", "Unknown"}
              /\ RawOf(df_clean[k]) # {}
              /\ \A i \in RawOf(df_clean[k]) :
                    /\ df_clean[k]["Type"] = TypeOf(rows[i]["Type"])
                    /\ rows[i]["Type"] \in AcceptedTypes =>
                          df_clean[k]["Type"] \in {"Debit", "Credit"}
        /\ \A i \in 1..Len(rows) : \E k \in 1..Len(df_clean) : i \in RawOf(df_clean[k])
        /\ validation_results.data_quality.type_errors =
              Cardinality({i \in 1..Len(rows) : rows[i]["Type"] \notin AcceptedTypes})

\* A type the quality check flags ("WITHDRAWAL") that cleans to Debit, next to
\* a null type that cleans to Unknown
C12_Witness ==
    /\ pc = "breakdown"
    /\ Len(rows) = 2
    /\ rows[1]["Type"] = t_WITHDRAWAL
    /\ rows[2]["Type"] = NaN
    /\ validation_results.data_quality.type_errors = 2
    /\ Len(df_clean) = 2
    /\ df_clean[1]["Type"] = "Debit"
    /\ df_clean[2]["Type"] = "Unknown"

-----------------------------------------------------------------------------
(* Properties of the quality check (SpecValidate)                           *)

\* C13: the quality check counts a row in amount_errors exactly when its amount,
\* with the currency symbols and thousands separators stripped and accounting
\* parentheses turned into a minus sign, does not parse as a number, that is,
\* exactly when clean_amount returns null for it.
C13_AmountErrorsAreParserNulls ==
    (pc = "check" /\ validation_results.is_valid) =>
        validation_results.data_quality.amount_errors =
            Cardinality({i \in 1..Len(rows) : clean_amount(rows[i]["Amount"]).null})

\* A cell that is null or holds nothing but blanks
IsBlank(t) == t = NaN \/ \A i \in 1..Len(t) : t[i] \in {" ", "\t"}

Largest(S) == CHOOSE m \in S : \A x \in S : m >= x

\* C15: for a structurally valid file valid_rows = total_rows - max(date_errors,
\* amount_errors, type_errors), every error count lies in 0..total_rows, so
\* 0 <= valid_rows <= total_rows; date_errors counts the rows whose date is
\* null or blank after trimming, type_errors the rows whose type is not
\* literally Debit, Credit, debit or credit.
C15_ValidRows ==
    (pc = "check" /\ validation_results.is_valid) =>
        LET q == validation_results.data_quality
        IN  /\ q.total_rows = Len(rows)
            /\ q.valid_rows =
                  q.total_rows - Largest({q.date_errors, q.amount_errors, q.type_errors})
            /\ q.date_errors \in 0..q.total_rows
            /\ q.amount_errors \in 0..q.total_rows
            /\ q.type_errors \in 0..q.total_rows
            /\ q.valid_rows \in 0..q.total_rows
            /\ q.date_errors = Cardinality({i \in 1..Len(rows) : IsBlank(rows[i]["Date"])})
            /\ q.type_errors =
                  Cardinality({i \in 1..Len(rows) :
                                  rows[i]["Type"] \notin {t_Debit, t_Credit, t_debit, t_credit}})

\* A blank date, two amounts and two types the check flags: no valid row
C15_Witness ==
    /\ pc = "check"
    /\ validation_results.is_valid
    /\ Len(rows) = 2
    /\ \E i \in 1..2 : rows[i]["Date"] = d_blank
    /\ validation_results.data_quality.date_errors = 1
    /\ validation_results.data_quality.amount_errors = 2
    /\ validation_results.data_quality.type_errors = 2
    /\ validation_results.data_quality.valid_rows = 0

-----------------------------------------------------------------------------
(* Properties of the order of a run (Spec)                                  *)

\* How far a run that has not raised has come
Stage ==
    CASE pc = "start" -> 0 [] pc = "load" -> 1 [] pc = "validate" -> 2
      [] pc = "check" -> 3 [] pc = "breakdown" -> 4 [] pc = "analyze" -> 5
      [] pc = "except" -> 6 [] pc = "report" -> 7 [] pc = "return" -> 8
      [] pc = "done" -> 9 [] pc = "raised" -> -1

Unrecovered == ai_error # "none" /\ ~(fallback_on_error /\ ai_error \in ApiErrors)

\* C16: the report is written only after validation, cleaning, the breakdown
\* and an analysis text have been obtained, in that order; a missing file, a
\* failed structural validation or an unrecovered AI failure ends the run by
\* raising, with no report written and no result returned; report_path is
\* non-null only when save_report was requested.
C16_NoPartialResult ==
    /\ Stage >= 3 => validation_results = validate_csv_structure(columns, rows)
    /\ Stage >= 4 => /\ validation_results.is_valid
                     /\ clean_calls = 1
                     /\ df_clean = clean_and_validate_data(rows)
    /\ Stage >= 5 => breakdown = calculate_spending_breakdown(df_clean)
    /\ Stage >= 7 => analysis \in {"ai", "basic"}
    /\ Stage \in 0..3 => clean_calls = 0
    /\ Stage \in 0..4 => (breakdown = NoBreakdown /\ ai_requests = 0)
    /\ Stage \in 0..6 => analysis = "none"
    /\ Stage \in 0..7 => (reports_written = 0 /\ report_path = "none")
    /\ Stage \in 0..8 => ~result.returned
    /\ reports_written > 0 => (Stage >= 8 /\ save_report /\ reports_written = 1)
    /\ report_path # "none" => (save_report /\ reports_written = 1)
    /\ result.returned => (pc = "done" /\ result.report_path = report_path
                                       /\ result.analysis = analysis)
    /\ pc = "raised" => /\ error # "none"
                        /\ reports_written = 0
                        /\ report_path = "none"
                        /\ ~result.returned
                        /\ ~ENABLED Next
    /\ (~FileExists /\ pc \notin {"start", "load"}) =>
          (pc = "raised" /\ error = "FileNotFoundError")
    /\ (RequiredMissing # {} /\ pc = "check") =>
          (ENABLED RaiseValidationError /\ ~ENABLED CleanData)
    /\ (RequiredMissing # {} /\ pc \notin {"start", "load", "validate", "check"}) =>
          pc = "raised"
    /\ Unrecovered => /\ pc \in {"except", "raised"}
                      /\ pc = "except" =>
                            (ENABLED PropagateApiError /\ ~ENABLED generate_basic_analysis)

\* An authentication failure with fallback switched off: the run has raised
\* after validation, cleaning and the breakdown, and no report exists although
\* one was requested
C16_Witness ==
    /\ pc = "raised"
    /\ error = "AuthenticationError"
    /\ ~fallback_on_error
    /\ save_report
    /\ clean_calls = 1
    /\ breakdown.summary.total_spent > 0
    /\ reports_written = 0
    /\ ~result.returned

-----------------------------------------------------------------------------
(* Properties of the categorization (SpecBreakdown)                         *)

\* C17: in a returned breakdown every expense row is counted in exactly one
\* emitted category: the counts of the emitted categories add up to
\* expense_count and their totals to total_spent; no emitted category has
\* count 0, and without expense rows the categories mapping is empty.
C17_CategoriesPartitionExpenses ==
    pc = "analyze" =>
        LET cats == breakdown.categories
            expense_rows == {i \in 1..Len(df_clean) : IsExpense(df_clean[i])}
        IN  /\ breakdown.by_type.expense_count = Cardinality(expense_rows)
            /\ SumSeq([i \in 1..Len(cats) |-> cats[i].count])
                  = breakdown.by_type.expense_count
            /\ SumSeq([i \in 1..Len(cats) |-> cats[i].total])
                  = breakdown.summary.total_spent
            /\ \A i \in 1..Len(cats) : cats[i].count > 0
            /\ \A i, j \in 1..Len(cats) : i # j => cats[i].name # cats[j].name
            /\ \A i \in 1..Len(cats) : cats[i].name \in Range(CategoryOrder)
            /\ expense_rows = {} <=> cats = <<>>

\* Two expense rows in one category and one in another, beside no income
C17_Witness ==
    /\ pc = "analyze"
    /\ breakdown.by_type.expense_count = 3
    /\ Len(breakdown.categories) = 2
    /\ breakdown.categories[1].count = 2
    /\ breakdown.categories[2].count = 1
    /\ breakdown.categories[2].name = "Other"
    /\ breakdown.summary.total_spent = 7000

-----------------------------------------------------------------------------
(* Properties of the returned dictionary (Spec)                             *)

\* C18: in a completed run used_fallback is truthy exactly when the AI request
\* failed and the analysis was produced by generate_basic_analysis; a run whose
\* analysis came from the AI service never reports used_fallback, whatever the
\* text contains.
C18_UsedFallbackIffFallback ==
    pc = "done" =>
        /\ result.used_fallback <=> (ai_error # "none" /\ result.analysis = "basic")
        /\ result.analysis = "ai" => ~result.used_fallback

====
